---- MODULE Spec2Model ----
(***************************************************************************)
(* Model of the FayStar backend's provider clients and their routes:       *)
(*   - FalClientService (video generation, retrying transport),            *)
(*   - ElevenLabsService (text-to-speech, single transport call),          *)
(*   - POST /api/video/generate, POST /api/audio/tts, GET /api/audio/health*)
(* One request (or one direct client call) is in flight at a time; the     *)
(* transport is an adversary that picks the outcome of every attempt.      *)
(***************************************************************************)
EXTENDS Integers, Sequences, FiniteSets, TLC

(***************************************************************************)
(* Bounds of the exploration                                               *)
(***************************************************************************)
\* how far around a length limit the sampled string lengths reach
LenSlack == 1
\* how far around the duration limits the sampled durations reach
DurSlack == 1
\* how far around 0, 1 and 100 the sampled tuning parameters reach (hundredths)
TuneSlack == 1
\* how many requests beyond the limiter's max one client sends within a window
OverSlack == 2
\* longest binary answer of the provider, in bytes
MaxBytes == 4
\* how many records the users array is followed up to
MaxUsers == 3
\* how many records the subscriptions array is followed up to
MaxSubs == 2
\* how far a usage counter is followed
MaxUsage == 6
\* how many records the items array is followed up to
MaxItems == 2
\* how many milliseconds the clock is followed
MaxClock == 2
\* how many records the chats and the messages arrays are followed up to
MaxChats == 2
MaxMessages == 1

(***************************************************************************)
(* Program constants                                                       *)
(***************************************************************************)
\* a retry loop that allows one attempt too many
maxRetries_twoRetries == 1 + 1
maxRetries == 1
MinKeyLen == 10
MaxPromptLen == 1000
MaxTextLen == 5000
MinVoiceIdLen == 10
MinDuration == 1
MaxDuration == 20
DefaultDuration == 5
validRatios == {"16:9", "9:16", "1:1", "4:3", "21:9"}
DefaultRatio == "16:9"

(***************************************************************************)
(* JavaScript values, as far as the code distinguishes them                *)
(***************************************************************************)
Undef == [t |-> "undefined"]
Arr == [t |-> "array"]
Num(n) == [t |-> "number", n |-> n]
\* a string of len characters of which trimLen remain after trim()
Str(len, trimLen) == [t |-> "string", len |-> len, trimLen |-> trimLen]
\* a string holding the decimal spelling of the integer n, e.g. "5"
NumStr(n) == [t |-> "numstring", n |-> n]
\* the number h/100 (tuning parameters are sampled in hundredths)
Hundredths(h) == [t |-> "number", h |-> h]
\* an aspect-ratio string such as "16:9"
RatioStr(s) == [t |-> "ratio", s |-> s]

\* !v is false
Truthy(v) ==
  CASE v.t = "undefined" -> FALSE
    [] v.t = "string" -> v.len > 0
    [] v.t = "numstring" -> TRUE
    [] v.t = "ratio" -> TRUE
    [] v.t = "number" -> v.n # 0
    [] OTHER -> TRUE

\* v.substring(...) / v.trim() can be called without a TypeError
HasStringMethods(v) == v.t = "string"

\* v?.substring(...) can be evaluated without a TypeError
OptionalSubstringOk(v) == v.t = "undefined" \/ HasStringMethods(v)

Trim(v) == IF v.t = "string" THEN Str(v.trimLen, v.trimLen) ELSE v

\* typeof v
TypeOf(v) ==
  CASE v.t \in {"string", "numstring", "ratio"} -> "string"
    [] v.t = "number" -> "number"
    [] v.t = "undefined" -> "undefined"
    [] OTHER -> "object"

\* string lengths sampled around a limit
LensAround(limit) == (0..LenSlack) \cup ((limit - LenSlack)..(limit + LenSlack))

StringsAround(limit) ==
  {Str(l, l) : l \in LensAround(limit)} \cup {Str(l, 0) : l \in 1..LenSlack}

(***************************************************************************)
(* Transport outcomes                                                      *)
(***************************************************************************)
HttpStatuses == {400, 401, 402, 403, 404, 422, 429, 500, 501, 503}
NetCodes == {"ECONNABORTED", "ECONNREFUSED", "ECONNRESET"}
Ok == [kind |-> "ok"]
Http(s) == [kind |-> "http", status |-> s]
Net(c) == [kind |-> "net", code |-> c]
\* a plain Error thrown inside the client (no response, no code)
PlainError == [kind |-> "error"]
TransportFailures == {Http(s) : s \in HttpStatuses} \cup {Net(c) : c \in NetCodes}
TransportOutcomes == {Ok} \cup TransportFailures


(***************************************************************************)
(* FalClientService: pure parts                                            *)
(***************************************************************************)
\* the constructor's _validateApiKey returns normally (does not throw)
FalValidateApiKey(key) == Truthy(key) /\ TypeOf(key) = "string" /\ key.len >= MinKeyLen

\* default parameter values of generateVideo({ prompt, duration = 5, aspectRatio = "16:9" })
DurationOrDefault(d) == IF d.t = "undefined" THEN Num(DefaultDuration) ELSE d
RatioOrDefault(r) == IF r.t = "undefined" THEN RatioStr(DefaultRatio) ELSE r

\* _validateInput with the upper limit of the duration forgotten
FalValidateInput_noUpperDuration(prompt, duration, aspectRatio) ==
  /\ Truthy(prompt) /\ prompt.t = "string"
  /\ prompt.trimLen # 0
  /\ ~(prompt.len > MaxPromptLen)
  /\ \/ duration.t = "undefined"
     \/ ~(TypeOf(duration) # "number" \/ duration.n < MinDuration)
  /\ \/ aspectRatio.t = "undefined"
     \/ (aspectRatio.t = "ratio" /\ aspectRatio.s \in validRatios)

\* _validateInput returns normally (does not throw)
FalValidateInput(prompt, duration, aspectRatio) ==
  /\ Truthy(prompt) /\ prompt.t = "string"
  /\ prompt.trimLen # 0
  /\ ~(prompt.len > MaxPromptLen)
  /\ \/ duration.t = "undefined"
     \/ ~(TypeOf(duration) # "number" \/ duration.n < MinDuration \/ duration.n > MaxDuration)
  /\ \/ aspectRatio.t = "undefined"
     \/ (aspectRatio.t = "ratio" /\ aspectRatio.s \in validRatios)

\* the authentication status left out of the no-retry test
NoRetryStatuses_without401 == {403, 402, 429}
\* the statuses _makeRequestWithRetry rethrows at once
NoRetryStatuses == {401, 403, 402, 429}
FalNoRetry(err) == err.kind = "http" /\ err.status \in NoRetryStatuses

\* _handleError(error).type
FalHandleError(err) ==
  IF err.kind = "http" THEN
    CASE err.status = 401 -> "INVALID_API_KEY"
      [] err.status = 403 -> "ACCESS_DENIED"
      [] err.status = 402 -> "NO_CREDITS"
      [] err.status = 429 -> "RATE_LIMITED"
      [] err.status \in {500, 502, 503, 504} -> "SERVER_ERROR"
      [] OTHER -> "API_ERROR"
  ELSE IF err.kind = "net" THEN
    CASE err.code = "ECONNABORTED" -> "TIMEOUT"
      [] err.code \in {"ENOTFOUND", "ECONNREFUSED"} -> "NETWORK_ERROR"
      [] OTHER -> "NETWORK_ERROR"
  ELSE "UNKNOWN_ERROR"

(***************************************************************************)
(* ElevenLabsService: pure parts                                           *)
(***************************************************************************)
\* _validateApiKey: the value it leaves in this.disabled
ElDisabledFor(key) == ~(Truthy(key) /\ TypeOf(key) = "string" /\ key.len >= MinKeyLen)

DefaultVoiceId == Str(20, 20)
VoiceOrDefault_otherVoice(v) ==
  IF v.t = "undefined" THEN Str(MinVoiceIdLen, MinVoiceIdLen) ELSE v
VoiceOrDefault(v) == IF v.t = "undefined" THEN DefaultVoiceId ELSE v
\* validVoiceId = voiceId.trim() || default
ValidVoiceId(v) == IF v.trimLen = 0 THEN DefaultVoiceId ELSE Trim(v)

\* _validateInput returns normally (does not throw)
ElValidateInput(text, voiceId) ==
  /\ Truthy(text) /\ text.t = "string"
  /\ text.trimLen # 0
  /\ ~(text.len > MaxTextLen)
  /\ Truthy(voiceId) /\ voiceId.t = "string"
  /\ ~(voiceId.len < MinVoiceIdLen)

\* errorType chosen by the catch block of generateSpeech
ElClassify(err) ==
  IF err.kind = "http" THEN
    CASE err.status = 401 -> "INVALID_API_KEY"
      [] err.status = 404 -> "INVALID_VOICE_OR_URL"
      [] err.status = 429 -> "RATE_LIMITED"
      [] err.status = 400 -> "BAD_REQUEST"
      [] err.status = 402 -> "PAYMENT_REQUIRED"
      [] err.status \in {500, 502, 503, 504} -> "SERVER_ERROR"
      [] OTHER -> "API_ERROR"
  ELSE IF err.kind = "net" /\ err.code = "ECONNABORTED" THEN "TIMEOUT"
  ELSE IF err.kind = "net" /\ err.code \in {"ENOTFOUND", "ECONNREFUSED"} THEN "NETWORK_ERROR"
  ELSE "UNKNOWN_ERROR"

(***************************************************************************)
(* Routes: pure parts                                                      *)
(***************************************************************************)
\* _getStatusCodeForError of routes/video.js with the RATE_LIMITED case lost
VideoStatusCodeForError_noRateLimit(errorType) ==
  CASE errorType \in {"INVALID_API_KEY", "MISSING_API_KEY"} -> 500
    [] errorType = "NO_CREDITS" -> 402
    [] errorType = "ACCESS_DENIED" -> 403
    [] errorType \in {"TIMEOUT", "NETWORK_ERROR", "SERVER_ERROR"} -> 503
    [] errorType = "VALIDATION_ERROR" -> 400
    [] OTHER -> 500

\* _getStatusCodeForError of routes/video.js
VideoStatusCodeForError(errorType) ==
  CASE errorType \in {"INVALID_API_KEY", "MISSING_API_KEY"} -> 500
    [] errorType = "NO_CREDITS" -> 402
    [] errorType = "RATE_LIMITED" -> 429
    [] errorType = "ACCESS_DENIED" -> 403
    [] errorType \in {"TIMEOUT", "NETWORK_ERROR", "SERVER_ERROR"} -> 503
    [] errorType = "VALIDATION_ERROR" -> 400
    [] OTHER -> 500

\* _getStatusCodeForError of routes/audio.js
AudioStatusCodeForError(errorType) ==
  CASE errorType \in {"INVALID_API_KEY", "MISSING_API_KEY"} -> 500
    [] errorType = "PAYMENT_REQUIRED" -> 402
    [] errorType = "RATE_LIMITED" -> 429
    [] errorType = "ACCESS_DENIED" -> 403
    [] errorType \in {"TIMEOUT", "NETWORK_ERROR", "SERVER_ERROR"} -> 503
    [] errorType \in {"BAD_REQUEST", "VALIDATION_ERROR"} -> 400
    [] OTHER -> 500

\* results of the normalisation are counted in units of 1/10000
Unit == 10000
DefaultStability == 5000
DefaultSimilarity == 8000
Min2(a, b) == IF a < b THEN a ELSE b
Max2(a, b) == IF a > b THEN a ELSE b

\* the normalisation with the percent branch not clamped
NormalizeTuning_noClamp(v, default) ==
  IF v.t = "undefined" THEN default
  ELSE IF TypeOf(v) = "number" THEN
    IF v.h > 100 THEN v.h
    ELSE Min2(Max2(v.h * 100, 0), Unit)
  ELSE default

\* the normalisation of stability / similarity in the handler of POST /tts:
\* v is h/100; v / 100 is h/10000, i.e. h units
NormalizeTuning(v, default) ==
  IF v.t = "undefined" THEN default
  ELSE IF TypeOf(v) = "number" THEN
    IF v.h > 100 THEN Min2(Max2(v.h, 0), Unit)
    ELSE Min2(Max2(v.h * 100, 0), Unit)
  ELSE default

\* isInt({min, max}) of express-validator: numbers and numeric strings alike
IsIntBetween(v, lo, hi) == v.t \in {"number", "numstring"} /\ v.n >= lo /\ v.n <= hi

\* the validation chain of POST /api/video/generate leaves no error
VideoBodyValid(body) ==
  /\ body.text.t = "string" /\ body.text.len >= 1 /\ body.text.len <= MaxPromptLen
  /\ body.duration.t = "undefined" \/ IsIntBetween(body.duration, MinDuration, MaxDuration)
  /\ body.aspectRatio.t = "undefined"
       \/ (body.aspectRatio.t = "ratio" /\ body.aspectRatio.s \in validRatios)

\* the validation chain of POST /api/audio/tts leaves no error
TtsBodyValid(body) ==
  /\ body.text.t = "string" /\ body.text.len >= 1 /\ body.text.len <= MaxTextLen
  /\ body.voiceId.t = "undefined"
       \/ (body.voiceId.t = "string" /\ body.voiceId.len >= MinVoiceIdLen)

\* the .trim() sanitizer at the end of the chain, applied to req.body
SanitizeBody(body) == [body EXCEPT !.text = Trim(body.text)]

(***************************************************************************)
(* Inputs                                                                  *)
(***************************************************************************)
\* values of a provider credential in process.env
KeyValues == {Undef, Str(MinKeyLen - 1, MinKeyLen - 1), Str(MinKeyLen, MinKeyLen)}
\* the Authorization header: absent, a token jwt.verify rejects, a token it accepts
Tokens == {"none", "invalid", "valid"}
PromptValues == {Undef, Arr} \cup StringsAround(MaxPromptLen)
TextValues == {Undef, Arr} \cup StringsAround(MaxTextLen)
DurationValues ==
  {Undef, NumStr(DefaultDuration)}
    \cup {Num(n) : n \in (MinDuration - DurSlack)..MinDuration}
    \cup {Num(n) : n \in MaxDuration..(MaxDuration + DurSlack)}
RatioValues == {Undef, RatioStr("16:9"), RatioStr("21:9"), RatioStr("4:5")}
\* stability / similarity in the request body: absent, not a number, and
\* numbers (in hundredths) around 0, 1 and 100
TuningValues ==
  {Undef, Str(3, 3)}
    \cup {Hundredths(h) : h \in (0 - TuneSlack)..0}
    \cup {Hundredths(h) : h \in 100..(100 + TuneSlack)}
    \cup {Hundredths(50), Hundredths(5000)}
    \cup {Hundredths(h) : h \in Unit..(Unit + TuneSlack)}
\* the (stability, similarity) pairs of the request bodies: one parameter
\* varies while the other is absent
TuningPairs ==
  {<<v, Undef>> : v \in TuningValues} \cup {<<Undef, v>> : v \in TuningValues}
\* a text the validation chain accepts
ValidText == Str(MaxTextLen, MaxTextLen)
VoiceValues == {Undef, Num(7), Str(MinVoiceIdLen - 1, MinVoiceIdLen - 1), Str(MinVoiceIdLen, MinVoiceIdLen)}

NoReq ==
  [ep |-> "none", token |-> "none", text |-> Undef, duration |-> Undef,
   aspectRatio |-> Undef, voiceId |-> Undef, stability |-> Undef,
   similarity |-> Undef, valOk |-> TRUE]
\* voice_settings of the provider payload, in units of 1/10000
Settings(st, si) == [stability |-> st, similarity_boost |-> si, voice_id |-> Undef]
NoSettings == Settings(0 - 1, 0 - 1)
NoResult == [state |-> "none", success |-> FALSE, errorType |-> "none"]
Resolved(ok, type) == [state |-> "resolved", success |-> ok, errorType |-> type]
\* the promise returned by the client method rejected (an exception escaped)
Rejected == [state |-> "rejected", success |-> FALSE, errorType |-> "none"]
Envelope(status, ok, type) == [status |-> status, success |-> ok, errorType |-> type]

(***************************************************************************)
(* State                                                                   *)
(***************************************************************************)
\* client addresses the rate limiter tells apart
Ips == {"ip1", "ip2"}
NoHits == [ip \in Ips |-> 0]
\* a request at the rate limiter: who sent it, where to, the limiter's count
\* for the sender before it, and the limiter's verdict
Arrival(ip, path, before, verdict) ==
  [ip |-> ip, path |-> path, before |-> before, verdict |-> verdict]
NoArrival == Arrival("none", "none", 0, "none")

\* the invocations that may be in flight together
Calls == {1, 2}
\* the frame of one invocation of generateVideo ("fal") or generateSpeech
\* ("el"): its argument, its locals, the outcomes of its own axios calls,
\* and what it returned
Frame(kind, at, text, attempt, lastError, outcomes, result) ==
  [kind |-> kind, pc |-> at, text |-> text, attempt |-> attempt,
   lastError |-> lastError, outcomes |-> outcomes, result |-> result]
NoFrame == Frame("none", "idle", Undef, 0, Ok, <<>>, NoResult)
NoCalls == [c \in Calls |-> NoFrame]

\* a binary answer on its way into an envelope: the bytes received, the
\* base64 text and the size reported
Audio(ep, bytes, text, size) == [ep |-> ep, bytes |-> bytes, base64 |-> text, size |-> size]
NoAudio == Audio("none", <<>>, <<>>, 0)

\* a register request in flight: where it is, the normalised email of its
\* body, and the status it was answered with
Reg(at, email, status) == [pc |-> at, email |-> email, status |-> status]
NoReg == Reg("idle", "none", 0)
NoRegs == [c \in Calls |-> NoReg]
\* a record of the users array, as far as the routes compare it
User(email) == [email |-> email]

\* a request to the subscription router and the status it was answered with
SubReq(route, userId, status) == [route |-> route, userId |-> userId, status |-> status]
NoSubReq == SubReq("none", "none", 0)
\* a request to the marketplace router and the status it was answered with
MarketReq(route, userId, itemId, status) ==
  [route |-> route, userId |-> userId, itemId |-> itemId, status |-> status]
NoMarketReq == MarketReq("none", "none", 0 - 1, 0)
\* a request to the chat router and its answer: the status, and for GET
\* /get the chat object and the message texts of the body
ChatView(route, userId, status, lastMessage, texts) ==
  [route |-> route, userId |-> userId, status |-> status, lastMessage |-> lastMessage,
   texts |-> texts]
NoText == [from |-> "none", to |-> "none"]
NoChatView == ChatView("none", "none", 0, NoText, {})

VARIABLES
  falKey,       \* process.env.FAL_KEY
  elKey,        \* process.env.ELEVENLABS_API_KEY
  falClient,    \* routes/video.js: "ready" or "null"
  elDisabled,   \* ElevenLabsService.disabled
  pc,           \* position of the call in flight
  req,          \* the request (or direct call) in flight
  attempt,      \* loop variable of _makeRequestWithRetry
  lastError,    \* lastError of _makeRequestWithRetry
  outcomes,     \* log of the transport: outcome of every axios call of this request
  sleeps,       \* number of _sleep(2000) pauses of this request
  result,       \* what the client method returned to its caller
  responses,    \* envelopes sent with res.status(..).json(..) for this request
  voiceSettings, \* stability / similarity handed to generateSpeech, and the payload sent on
  openaiKey,    \* process.env.OPENAI_API_KEY
  hits,         \* store of the rate limiter: requests counted per client IP in this window
  arrival,      \* the request that last went through the rate limiter
  calls,        \* the invocations in flight on the shared client instances, one frame each
  audio,        \* the provider's binary answer being turned into a success envelope
  users,        \* auth router: the users array
  regs,         \* auth router: the register requests in flight, one frame each
  subs,         \* subscription router: the subscriptions array
  subReq,       \* subscription router: the request last handled and its answer
  items,        \* marketplace router: the items array
  orders,       \* marketplace router: the orders array
  now,          \* Date.now(), in milliseconds since start-up
  marketReq,    \* marketplace router: the request last handled and its answer
  chats,        \* chat router: the chats array
  messages,     \* chat router: the messages array
  chatView      \* chat router: the request last handled and its answer

vars ==
  <<falKey, elKey, falClient, elDisabled, pc, req, attempt, lastError, outcomes,
    sleeps, result, responses, voiceSettings, openaiKey, hits, arrival, calls, audio,
    users, regs, subs, subReq, items, orders, now, marketReq, chats, messages, chatView>>
config == <<falKey, elKey, falClient, elDisabled>>
limiterVars == <<hits, arrival>>
\* the state behind the other routers, untouched by the routes above
audioVars == <<audio>>
authVars == <<users, regs>>
subVars == <<subs, subReq>>
marketVars == <<items, orders, now, marketReq>>
chatVars == <<chats, messages, chatView>>
stores == <<audioVars, authVars, subVars, marketVars, chatVars>>
static == <<config, openaiKey, limiterVars, calls, stores>>
callVars == <<attempt, lastError, outcomes, sleeps>>
\* the state of the provider routes, the limiter and the client invocations
mainVars ==
  <<config, openaiKey, limiterVars, calls, voiceSettings, pc, req, callVars, result,
    responses>>

\* the stores as the modules leave them when they are loaded
StoresInit ==
  /\ audio = NoAudio
  /\ users = <<>>
  /\ regs = NoRegs
  /\ subs = <<>>
  /\ subReq = NoSubReq
  /\ items = <<>>
  /\ orders = <<>>
  /\ now = 0
  /\ marketReq = NoMarketReq
  /\ chats = <<>>
  /\ messages = <<>>
  /\ chatView = NoChatView

RouteEps == {"video", "tts"}
DirectEps == {"genVideo", "genSpeech"}

Init ==
  /\ falKey \in KeyValues
  /\ elKey \in KeyValues
  /\ falClient = IF FalValidateApiKey(falKey) THEN "ready" ELSE "null"
  /\ elDisabled = ElDisabledFor(elKey)
  /\ pc = "idle"
  /\ req = NoReq
  /\ attempt = 0
  /\ lastError = Ok
  /\ outcomes = <<>>
  /\ sleeps = 0
  /\ result = NoResult
  /\ responses = <<>>
  /\ voiceSettings = NoSettings
  /\ openaiKey = Undef
  /\ hits = NoHits
  /\ arrival = NoArrival
  /\ calls = NoCalls
  /\ StoresInit

Respond(status, ok, type) == responses' = Append(responses, Envelope(status, ok, type))

(***************************************************************************)
(* Arrival of requests; the validation chains run before verifyToken       *)
(***************************************************************************)
VideoRequest(token, prompt, duration, aspectRatio) ==
  /\ pc = "idle"
  /\ LET body == [NoReq EXCEPT !.ep = "video", !.token = token, !.text = prompt,
                               !.duration = duration, !.aspectRatio = aspectRatio]
     IN req' = [SanitizeBody(body) EXCEPT !.valOk = VideoBodyValid(body)]
  /\ pc' = "verifyToken"
  /\ UNCHANGED <<static, voiceSettings, callVars, result, responses>>

TtsRequest(token, text, voiceId, stability, similarity) ==
  /\ pc = "idle"
  /\ LET body == [NoReq EXCEPT !.ep = "tts", !.token = token, !.text = text,
                               !.voiceId = voiceId, !.stability = stability,
                               !.similarity = similarity]
     IN req' = [SanitizeBody(body) EXCEPT !.valOk = TtsBodyValid(body)]
  /\ pc' = "verifyToken"
  /\ UNCHANGED <<static, voiceSettings, callVars, result, responses>>

\* verifyToken middleware
VerifyToken ==
  /\ pc = "verifyToken"
  /\ IF req.token = "none" THEN
       /\ Respond(401, FALSE, "AUTHENTICATION_ERROR")
       /\ pc' = "done"
     ELSE IF req.token = "valid" THEN
       /\ pc' = "handler"
       /\ UNCHANGED responses
     ELSE
       /\ Respond(401, FALSE, "AUTHENTICATION_ERROR")
       /\ pc' = "done"
  /\ UNCHANGED <<static, voiceSettings, req, callVars, result>>

(***************************************************************************)
(* POST /api/video/generate and FalClientService.generateVideo             *)
(***************************************************************************)
\* the handler up to its call of falClient.generateVideo
VideoHandler ==
  /\ pc = "handler" /\ req.ep = "video"
  /\ IF ~OptionalSubstringOk(req.text) THEN
       \* the log line before the try block throws: the handler's promise
       \* rejects and nothing is sent
       /\ pc' = "crashed"
       /\ UNCHANGED <<req, responses>>
     ELSE IF ~req.valOk THEN
       /\ Respond(400, FALSE, "VALIDATION_ERROR")
       /\ pc' = "done"
       /\ UNCHANGED req
     ELSE IF falClient = "null" THEN
       /\ Respond(503, FALSE, "SERVICE_UNAVAILABLE")
       /\ pc' = "done"
       /\ UNCHANGED req
     ELSE IF ~Truthy(falKey) THEN
       /\ Respond(500, FALSE, "MISSING_API_KEY")
       /\ pc' = "done"
       /\ UNCHANGED req
     ELSE
       /\ req' = [req EXCEPT !.duration = DurationOrDefault(req.duration),
                             !.aspectRatio = RatioOrDefault(req.aspectRatio)]
       /\ pc' = "generateVideo"
       /\ UNCHANGED responses
  /\ UNCHANGED <<static, voiceSettings, callVars, result>>

\* a caller other than the route invokes generateVideo(params)
DirectGenerateVideo(prompt, duration, aspectRatio) ==
  /\ pc = "idle"
  /\ falClient = "ready"
  /\ req' = [NoReq EXCEPT !.ep = "genVideo", !.text = prompt,
                          !.duration = duration, !.aspectRatio = aspectRatio]
  /\ pc' = "generateVideo"
  /\ UNCHANGED <<static, voiceSettings, callVars, result, responses>>

\* generateVideo up to its call of _makeRequestWithRetry
GenerateVideoEntry ==
  /\ pc = "generateVideo"
  /\ IF ~HasStringMethods(req.text) THEN
       \* prompt.substring(...) in the log line before the try block
       /\ result' = Rejected
       /\ pc' = "returned"
       /\ UNCHANGED attempt
     ELSE IF ~FalValidateInput(req.text, DurationOrDefault(req.duration),
                               RatioOrDefault(req.aspectRatio)) THEN
       /\ result' = Resolved(FALSE, FalHandleError(PlainError))
       /\ pc' = "returned"
       /\ UNCHANGED attempt
     ELSE
       /\ attempt' = 1
       /\ pc' = "attempt"
       /\ UNCHANGED result
  /\ UNCHANGED <<static, voiceSettings, req, lastError, outcomes, sleeps, responses>>

\* the loop of _makeRequestWithRetry is left: throw lastError, caught by generateVideo
FalThrow(err) ==
  /\ result' = Resolved(FALSE, FalHandleError(err))
  /\ pc' = "returned"

\* one iteration of the loop of _makeRequestWithRetry: the axios call and its catch block
FalAttempt(o) ==
  /\ pc = "attempt"
  /\ outcomes' = Append(outcomes, o)
  /\ IF o = Ok THEN
       /\ result' = Resolved(TRUE, "none")
       /\ pc' = "returned"
       /\ UNCHANGED <<attempt, lastError>>
     ELSE
       /\ lastError' = o
       /\ IF FalNoRetry(o) THEN
            FalThrow(o) /\ UNCHANGED attempt
          ELSE IF attempt <= maxRetries THEN
            /\ pc' = "sleep"
            /\ UNCHANGED <<attempt, result>>
          ELSE
            /\ attempt' = attempt + 1
            /\ IF attempt + 1 <= maxRetries + 1
                 THEN pc' = "attempt" /\ UNCHANGED result
                 ELSE FalThrow(o)
  /\ UNCHANGED <<static, voiceSettings, req, sleeps, responses>>

\* await this._sleep(2000), then the next iteration
FalSleep ==
  /\ pc = "sleep"
  /\ sleeps' = sleeps + 1
  /\ attempt' = attempt + 1
  /\ IF attempt + 1 <= maxRetries + 1
       THEN pc' = "attempt" /\ UNCHANGED result
       ELSE FalThrow(lastError)
  /\ UNCHANGED <<static, voiceSettings, req, lastError, outcomes, responses>>

\* the handler after the await: success, failure, or its catch block
VideoRespond ==
  /\ pc = "returned" /\ req.ep = "video"
  /\ IF result.state = "rejected" THEN Respond(500, FALSE, "SYSTEM_ERROR")
     ELSE IF result.success THEN Respond(200, TRUE, "none")
     ELSE Respond(VideoStatusCodeForError(result.errorType), FALSE, result.errorType)
  /\ pc' = "done"
  /\ UNCHANGED <<static, voiceSettings, req, callVars, result>>

\* the direct caller receives the promise's outcome
DirectReturn ==
  /\ pc = "returned" /\ req.ep \in DirectEps
  /\ pc' = "done"
  /\ UNCHANGED <<static, voiceSettings, req, callVars, result, responses>>

\* the request is over; the next one starts from a clean slate
Finish ==
  /\ pc \in {"done", "crashed"}
  /\ pc' = "idle"
  /\ req' = NoReq
  /\ attempt' = 0
  /\ lastError' = Ok
  /\ outcomes' = <<>>
  /\ sleeps' = 0
  /\ result' = NoResult
  /\ responses' = <<>>
  /\ voiceSettings' = NoSettings
  /\ UNCHANGED static

(***************************************************************************)
(* POST /api/audio/tts and ElevenLabsService.generateSpeech                *)
(***************************************************************************)
\* the handler up to its call of elevenLabsService.generateSpeech; the
\* constructor of ElevenLabsService never throws, so the service object is
\* never null and the 503 branch of the handler is not taken
TtsHandler ==
  /\ pc = "handler" /\ req.ep = "tts"
  /\ IF ~OptionalSubstringOk(req.text) THEN
       /\ pc' = "crashed"
       /\ UNCHANGED <<req, responses, voiceSettings>>
     ELSE IF ~req.valOk THEN
       /\ Respond(400, FALSE, "VALIDATION_ERROR")
       /\ pc' = "done"
       /\ UNCHANGED <<req, voiceSettings>>
     ELSE IF ~Truthy(elKey) THEN
       /\ Respond(500, FALSE, "MISSING_API_KEY")
       /\ pc' = "done"
       /\ UNCHANGED <<req, voiceSettings>>
     ELSE
       /\ UNCHANGED req
       /\ voiceSettings' = Settings(NormalizeTuning(req.stability, DefaultStability),
                                    NormalizeTuning(req.similarity, DefaultSimilarity))
       /\ pc' = "generateSpeech"
       /\ UNCHANGED responses
  /\ UNCHANGED <<static, callVars, result>>

\* a caller other than the route invokes generateSpeech(text, voiceId);
\* stability and similarity take their default parameter values
DirectGenerateSpeech(text, voiceId) ==
  /\ pc = "idle"
  /\ req' = [NoReq EXCEPT !.ep = "genSpeech", !.text = text, !.voiceId = voiceId]
  /\ voiceSettings' = Settings(DefaultStability, DefaultSimilarity)
  /\ pc' = "generateSpeech"
  /\ UNCHANGED <<static, callVars, result, responses>>

\* generateSpeech up to its axios call
GenerateSpeechEntry ==
  /\ pc = "generateSpeech"
  /\ IF ~HasStringMethods(req.text) THEN
       \* text.substring(...) in the log line, before the disabled check
       /\ result' = Rejected
       /\ pc' = "returned"
       /\ UNCHANGED voiceSettings
     ELSE IF elDisabled THEN
       /\ result' = Resolved(FALSE, "SERVICE_DISABLED")
       /\ pc' = "returned"
       /\ UNCHANGED voiceSettings
     ELSE IF ~ElValidateInput(req.text, VoiceOrDefault(req.voiceId)) THEN
       /\ result' = Resolved(FALSE, ElClassify(PlainError))
       /\ pc' = "returned"
       /\ UNCHANGED voiceSettings
     ELSE
       \* the payload is built
       /\ voiceSettings' =
            [voiceSettings EXCEPT !.voice_id = ValidVoiceId(VoiceOrDefault(req.voiceId))]
       /\ pc' = "elRequest"
       /\ UNCHANGED result
  /\ UNCHANGED <<static, req, callVars, responses>>

\* the single axios call of generateSpeech and its catch block
ElTransport(o) ==
  /\ pc = "elRequest"
  /\ outcomes' = Append(outcomes, o)
  /\ result' = IF o = Ok THEN Resolved(TRUE, "none") ELSE Resolved(FALSE, ElClassify(o))
  /\ pc' = "returned"
  /\ UNCHANGED <<static, voiceSettings, req, attempt, lastError, sleeps, responses>>

TtsRespond ==
  /\ pc = "returned" /\ req.ep = "tts"
  /\ IF result.state = "rejected" THEN Respond(500, FALSE, "SYSTEM_ERROR")
     ELSE IF result.success THEN Respond(200, TRUE, "none")
     ELSE Respond(AudioStatusCodeForError(result.errorType), FALSE, result.errorType)
  /\ pc' = "done"
  /\ UNCHANGED <<static, voiceSettings, req, callVars, result>>

(***************************************************************************)
(* GET /api/audio/health and ElevenLabsService.checkHealth                 *)
(***************************************************************************)
\* the route is mounted without verifyToken; the service object always exists
AudioHealthRequest ==
  /\ pc = "idle"
  /\ req' = [NoReq EXCEPT !.ep = "audioHealth"]
  /\ pc' = "checkHealth"
  /\ UNCHANGED <<static, voiceSettings, callVars, result, responses>>

\* checkHealth: one axios GET, whatever this.disabled is; then the route answers
CheckHealth(o) ==
  /\ pc = "checkHealth"
  /\ outcomes' = Append(outcomes, o)
  /\ result' = IF o = Ok THEN Resolved(TRUE, "healthy") ELSE Resolved(FALSE, "unhealthy")
  /\ Respond(IF o = Ok THEN 200 ELSE 503, TRUE, "none")
  /\ pc' = "done"
  /\ UNCHANGED <<static, voiceSettings, req, attempt, lastError, sleeps>>

(***************************************************************************)
(* GET /api/video/health and FalClientService.checkHealth                  *)
(***************************************************************************)
\* the route is mounted without verifyToken: the Authorization header is
\* never read
VideoHealthRequest(token) ==
  /\ pc = "idle"
  /\ req' = [NoReq EXCEPT !.ep = "videoHealth", !.token = token]
  /\ pc' = "videoHealth"
  /\ UNCHANGED <<static, voiceSettings, callVars, result, responses>>

\* the handler up to its call of falClient.checkHealth; the body it sends
\* always carries success: true
VideoHealthHandler ==
  /\ pc = "videoHealth"
  /\ IF falClient = "null" THEN
       /\ Respond(503, TRUE, "none")
       /\ pc' = "done"
     ELSE
       /\ pc' = "falCheckHealth"
       /\ UNCHANGED responses
  /\ UNCHANGED <<static, voiceSettings, req, callVars, result>>

\* checkHealth: one axios GET; then the route answers
FalCheckHealth(o) ==
  /\ pc = "falCheckHealth"
  /\ outcomes' = Append(outcomes, o)
  /\ result' = IF o = Ok THEN Resolved(TRUE, "healthy") ELSE Resolved(FALSE, "unhealthy")
  /\ Respond(IF o = Ok THEN 200 ELSE 503, TRUE, "none")
  /\ pc' = "done"
  /\ UNCHANGED <<static, voiceSettings, req, attempt, lastError, sleeps>>

(***************************************************************************)
(* POST /api/test/tts                                                      *)
(***************************************************************************)
\* the route has neither a validation chain nor verifyToken
TestTtsRequest(token, text, voiceId) ==
  /\ pc = "idle"
  /\ req' = [NoReq EXCEPT !.ep = "testTts", !.token = token, !.text = text,
                          !.voiceId = voiceId]
  /\ pc' = "testHandler"
  /\ UNCHANGED <<static, voiceSettings, callVars, result, responses>>

\* the handler up to its call of elevenLabsService.generateSpeech(text, voiceId)
TestTtsHandler ==
  /\ pc = "testHandler"
  /\ IF ~Truthy(req.text) \/ TypeOf(req.text) # "string" THEN
       /\ Respond(400, FALSE, "none")
       /\ pc' = "done"
       /\ UNCHANGED <<req, voiceSettings>>
     ELSE IF req.text.len > MaxTextLen THEN
       /\ Respond(400, FALSE, "none")
       /\ pc' = "done"
       /\ UNCHANGED <<req, voiceSettings>>
     ELSE
       /\ UNCHANGED req
       /\ voiceSettings' = Settings(DefaultStability, DefaultSimilarity)
       /\ pc' = "generateSpeech"
       /\ UNCHANGED responses
  /\ UNCHANGED <<static, callVars, result>>

TestTtsRespond ==
  /\ pc = "returned" /\ req.ep = "testTts"
  /\ IF result.state = "rejected" THEN Respond(500, FALSE, "SYSTEM_ERROR")
     ELSE IF result.success THEN Respond(200, TRUE, "none")
     ELSE Respond(500, FALSE, result.errorType)
  /\ pc' = "done"
  /\ UNCHANGED <<static, voiceSettings, req, callVars, result>>

(***************************************************************************)
(* POST /api/ai/chat, /api/ai/voice, /api/ai/image                         *)
(***************************************************************************)
AiEps == {"aiChat", "aiVoice", "aiImage"}
\* the envelopes of the AI routes: status, success, and data.isFallback
AiEnvelope(status, ok, fallback) == [status |-> status, success |-> ok, isFallback |-> fallback]
\* an optional body field checked with isIn([...]): a listed or unlisted value
Choice(listed) == [t |-> "choice", listed |-> listed]
\* a 2xx answer whose body lacks the fields the handler reads
OkMalformed == [kind |-> "okMalformed"]
AiOutcomes == TransportOutcomes \cup {OkMalformed}
OpenAiKeyValues == {Undef, Str(MinKeyLen, MinKeyLen)}
\* message / text / prompt of the body
AiTextValues == {Undef, Str(0, 0), Str(1, 0), Str(1, 1)}
AiOptionValues == {Undef, Choice(TRUE), Choice(FALSE)}

\* notEmpty() on the main field and optional().isIn([...]) on the option
AiBodyValid(text, option) ==
  /\ text.t = "string" /\ text.len >= 1
  /\ option.t = "undefined" \/ option.listed

AiAnswer_errorOnFailure(o) ==
  IF o = Ok THEN AiEnvelope(200, TRUE, FALSE) ELSE AiEnvelope(500, FALSE, FALSE)
\* the inner try / catch around axios.post: the provider's answer, or the
\* fallback answer for anything thrown
AiAnswer(o) ==
  IF o = Ok THEN AiEnvelope(200, TRUE, FALSE) ELSE AiEnvelope(200, TRUE, TRUE)

\* the validation chain runs first and records its verdict
AiRequest(ep, token, text, option) ==
  /\ pc = "idle"
  /\ req' = [NoReq EXCEPT !.ep = ep, !.token = token, !.text = Trim(text),
                          !.valOk = AiBodyValid(text, option)]
  /\ pc' = "aiVerifyToken"
  /\ UNCHANGED <<static, voiceSettings, callVars, result, responses>>

\* verifyToken of the AI router
AiVerifyToken ==
  /\ pc = "aiVerifyToken"
  /\ IF req.token = "valid" THEN
       /\ pc' = "aiHandler"
       /\ UNCHANGED responses
     ELSE
       /\ responses' = Append(responses, AiEnvelope(401, FALSE, FALSE))
       /\ pc' = "done"
  /\ UNCHANGED <<static, voiceSettings, req, callVars, result>>

\* the handler up to its axios.post
AiHandler ==
  /\ pc = "aiHandler"
  /\ IF ~req.valOk THEN
       /\ responses' = Append(responses, AiEnvelope(400, FALSE, FALSE))
       /\ pc' = "done"
     ELSE IF ~Truthy(openaiKey) THEN
       /\ responses' = Append(responses, AiEnvelope(500, FALSE, FALSE))
       /\ pc' = "done"
     ELSE
       /\ pc' = "aiCall"
       /\ UNCHANGED responses
  /\ UNCHANGED <<static, voiceSettings, req, callVars, result>>

\* the axios.post to OpenAI and the answer of the inner try / catch
AiCall(o) ==
  /\ pc = "aiCall"
  /\ outcomes' = Append(outcomes, o)
  /\ responses' = Append(responses, AiAnswer(o))
  /\ pc' = "done"
  /\ UNCHANGED <<static, voiceSettings, req, attempt, lastError, sleeps, result>>

\* the server with its OpenAI credential present or absent, serving the AI routes
InitAi ==
  /\ falKey = Undef
  /\ elKey = Undef
  /\ falClient = "null"
  /\ elDisabled = ElDisabledFor(Undef)
  /\ openaiKey \in OpenAiKeyValues
  /\ pc = "idle"
  /\ req = NoReq
  /\ attempt = 0
  /\ lastError = Ok
  /\ outcomes = <<>>
  /\ sleeps = 0
  /\ result = NoResult
  /\ responses = <<>>
  /\ voiceSettings = NoSettings
  /\ hits = NoHits
  /\ arrival = NoArrival
  /\ calls = NoCalls
  /\ StoresInit

NextAi ==
  \/ \E ep \in AiEps, t \in Tokens, x \in AiTextValues, c \in AiOptionValues :
       AiRequest(ep, t, x, c)
  \/ AiVerifyToken
  \/ AiHandler
  \/ \E o \in AiOutcomes : AiCall(o)
  \/ Finish

SpecAi == InitAi /\ [][NextAi]_vars

(***************************************************************************)
(* server.js: the rate limiter in front of every route                     *)
(***************************************************************************)
\* RATE_LIMIT_MAX_REQUESTS of the environment (100 when not set)
RateLimitMax == 3
\* mount paths behind the limiter: the health router and the API routers
Paths == {"/health", "/api"}

\* the limiter counts the request and rejects it once the count exceeds max;
\* it is mounted with app.use(limiter), without a path and without a skip
\* option, so the request path plays no part
LimiterVerdict(path, count) == IF count > RateLimitMax THEN "limited" ELSE "passed"

\* a request from ip for path goes through app.use(limiter)
LimiterRequest(ip, path) ==
  /\ hits[ip] < RateLimitMax + OverSlack
  /\ hits' = [hits EXCEPT ![ip] = hits[ip] + 1]
  /\ arrival' = Arrival(ip, path, hits[ip], LimiterVerdict(path, hits[ip] + 1))
  /\ UNCHANGED <<config, openaiKey, calls, stores, voiceSettings, pc, req, callVars,
                 result, responses>>

\* windowMs has passed: the store forgets its counts
WindowElapses ==
  /\ hits # NoHits
  /\ hits' = NoHits
  /\ UNCHANGED <<arrival, config, openaiKey, calls, stores, voiceSettings, pc, req,
                 callVars, result, responses>>

InitLimiter ==
  /\ falKey = Undef
  /\ elKey = Undef
  /\ falClient = "null"
  /\ elDisabled = ElDisabledFor(Undef)
  /\ openaiKey = Undef
  /\ pc = "idle"
  /\ req = NoReq
  /\ attempt = 0
  /\ lastError = Ok
  /\ outcomes = <<>>
  /\ sleeps = 0
  /\ result = NoResult
  /\ responses = <<>>
  /\ voiceSettings = NoSettings
  /\ hits = NoHits
  /\ arrival = NoArrival
  /\ calls = NoCalls
  /\ StoresInit

NextLimiter ==
  \/ \E ip \in Ips, path \in Paths : LimiterRequest(ip, path)
  \/ WindowElapses

SpecLimiter == InitLimiter /\ [][NextLimiter]_vars

(***************************************************************************)
(* Invocations in flight together on the same client instances.  Node runs *)
(* one invocation at a time between two awaits; the awaits (the axios call *)
(* and _sleep) are where invocations interleave.                           *)
(***************************************************************************)
ConcKinds == {"fal", "el"}
\* prompt / text: one that throws in the log line, one that fails
\* validation, one that is accepted
ConcTexts == {Arr, Str(0, 0), Str(1, 1)}
ConcOutcomes == {Ok, Http(401), Http(500), Net("ECONNRESET")}

\* where the loop variable attempt of invocation c lives: it is declared with
\* let in the for statement, so in the invocation's own frame
AttemptOwner_onInstance(c) == 1
AttemptOwner(c) == c

ReadAttempt(c) == calls[AttemptOwner(c)].attempt
\* invocation c has run up to its next await and its frame is now f
StoreFrame(c, f) ==
  calls' = [d \in Calls |->
              IF d = c THEN
                IF AttemptOwner(c) = c THEN f
                ELSE [f EXCEPT !.attempt = calls[c].attempt]
              ELSE IF d = AttemptOwner(c) THEN [calls[d] EXCEPT !.attempt = f.attempt]
              ELSE calls[d]]

ConcUnchanged ==
  UNCHANGED <<config, openaiKey, limiterVars, stores, voiceSettings, pc, req, callVars,
              result, responses>>

\* a caller invokes generateVideo({prompt}) or generateSpeech(text)
ConcStart(c, kind, text) ==
  /\ calls[c].pc = "idle"
  /\ StoreFrame(c, [NoFrame EXCEPT !.kind = kind, !.pc = "entered", !.text = text,
                                    !.attempt = ReadAttempt(c)])
  /\ ConcUnchanged

\* the invocation runs from its entry to its first await, or returns
ConcEnter(c) ==
  /\ calls[c].pc = "entered"
  /\ LET f == calls[c] IN
       IF ~HasStringMethods(f.text) THEN
         StoreFrame(c, [f EXCEPT !.result = Rejected, !.pc = "returned",
                                 !.attempt = ReadAttempt(c)])
       ELSE IF f.kind = "fal" THEN
         IF ~FalValidateInput(f.text, DurationOrDefault(Undef), RatioOrDefault(Undef)) THEN
           StoreFrame(c, [f EXCEPT !.result = Resolved(FALSE, FalHandleError(PlainError)),
                                   !.pc = "returned", !.attempt = ReadAttempt(c)])
         ELSE StoreFrame(c, [f EXCEPT !.attempt = 1, !.pc = "attempt"])
       ELSE IF elDisabled THEN
         StoreFrame(c, [f EXCEPT !.result = Resolved(FALSE, "SERVICE_DISABLED"),
                                 !.pc = "returned", !.attempt = ReadAttempt(c)])
       ELSE IF ~ElValidateInput(f.text, DefaultVoiceId) THEN
         StoreFrame(c, [f EXCEPT !.result = Resolved(FALSE, ElClassify(PlainError)),
                                 !.pc = "returned", !.attempt = ReadAttempt(c)])
       ELSE StoreFrame(c, [f EXCEPT !.pc = "elRequest", !.attempt = ReadAttempt(c)])
  /\ ConcUnchanged

\* the axios call of invocation c settles with outcome o and the invocation
\* runs on to its next await or to its return
ConcTransport(c, o) ==
  /\ calls[c].pc \in {"attempt", "elRequest"}
  /\ LET f == [calls[c] EXCEPT !.outcomes = Append(@, o), !.attempt = ReadAttempt(c)] IN
       IF f.pc = "elRequest" THEN
         StoreFrame(c, [f EXCEPT !.pc = "returned",
                                 !.result = IF o = Ok THEN Resolved(TRUE, "none")
                                            ELSE Resolved(FALSE, ElClassify(o))])
       ELSE IF o = Ok THEN
         StoreFrame(c, [f EXCEPT !.pc = "returned", !.result = Resolved(TRUE, "none")])
       ELSE IF FalNoRetry(o) THEN
         StoreFrame(c, [f EXCEPT !.lastError = o, !.pc = "returned",
                                 !.result = Resolved(FALSE, FalHandleError(o))])
       ELSE IF f.attempt <= maxRetries THEN
         StoreFrame(c, [f EXCEPT !.lastError = o, !.pc = "sleep"])
       ELSE IF f.attempt + 1 <= maxRetries + 1 THEN
         StoreFrame(c, [f EXCEPT !.lastError = o, !.attempt = @ + 1, !.pc = "attempt"])
       ELSE
         StoreFrame(c, [f EXCEPT !.lastError = o, !.attempt = @ + 1, !.pc = "returned",
                                 !.result = Resolved(FALSE, FalHandleError(o))])
  /\ ConcUnchanged

\* _sleep(2000) of invocation c is over: the next iteration of its loop
ConcWake(c) ==
  /\ calls[c].pc = "sleep"
  /\ LET f == [calls[c] EXCEPT !.attempt = ReadAttempt(c) + 1] IN
       IF f.attempt <= maxRetries + 1 THEN StoreFrame(c, [f EXCEPT !.pc = "attempt"])
       ELSE StoreFrame(c, [f EXCEPT !.pc = "returned",
                                    !.result = Resolved(FALSE, FalHandleError(f.lastError))])
  /\ ConcUnchanged

\* the caller has taken the result; the frame is gone
ConcReturn(c) ==
  /\ calls[c].pc = "returned"
  /\ StoreFrame(c, [NoFrame EXCEPT !.attempt = ReadAttempt(c)])
  /\ ConcUnchanged

\* both clients constructed with usable credentials, no invocation in flight
InitConc ==
  /\ falKey = Str(MinKeyLen, MinKeyLen)
  /\ elKey = Str(MinKeyLen, MinKeyLen)
  /\ falClient = "ready"
  /\ elDisabled = ElDisabledFor(elKey)
  /\ openaiKey = Undef
  /\ pc = "idle"
  /\ req = NoReq
  /\ attempt = 0
  /\ lastError = Ok
  /\ outcomes = <<>>
  /\ sleeps = 0
  /\ result = NoResult
  /\ responses = <<>>
  /\ voiceSettings = NoSettings
  /\ hits = NoHits
  /\ arrival = NoArrival
  /\ calls = NoCalls
  /\ StoresInit

NextConc ==
  \/ \E c \in Calls, k \in ConcKinds, x \in ConcTexts : ConcStart(c, k, x)
  \/ \E c \in Calls : ConcEnter(c)
  \/ \E c \in Calls, o \in ConcOutcomes : ConcTransport(c, o)
  \/ \E c \in Calls : ConcWake(c)
  \/ \E c \in Calls : ConcReturn(c)

SpecConc == InitConc /\ [][NextConc]_vars

(***************************************************************************)
(* Buffer.from(response.data).toString('base64') in generateSpeech and in  *)
(* POST /api/ai/voice                                                      *)
(***************************************************************************)
\* the quiet state of everything the routes below do not touch
MainIdle ==
  /\ falKey = Undef
  /\ elKey = Undef
  /\ falClient = "null"
  /\ elDisabled = ElDisabledFor(Undef)
  /\ openaiKey = Undef
  /\ pc = "idle"
  /\ req = NoReq
  /\ attempt = 0
  /\ lastError = Ok
  /\ outcomes = <<>>
  /\ sleeps = 0
  /\ result = NoResult
  /\ responses = <<>>
  /\ voiceSettings = NoSettings
  /\ hits = NoHits
  /\ arrival = NoArrival
  /\ calls = NoCalls

\* byte values of the answers
ByteValues == {0, 1, 77, 128, 255}
RECURSIVE SeqsUpTo(_, _)
SeqsUpTo(S, n) ==
  IF n = 0 THEN {<<>>}
  ELSE LET shorter == SeqsUpTo(S, n - 1) IN
         shorter \cup {Append(q, x) : q \in {r \in shorter : Len(r) = n - 1}, x \in S}
\* the '=' of the base64 text; the other characters are their 6-bit values
Pad == 64

\* the group without its '=' padding
EncodeGroup_noPadding(b) ==
  IF Len(b) = 1 THEN <<b[1] \div 4, (b[1] % 4) * 16>>
  ELSE IF Len(b) = 2 THEN
    <<b[1] \div 4, (b[1] % 4) * 16 + b[2] \div 16, (b[2] % 16) * 4>>
  ELSE <<b[1] \div 4, (b[1] % 4) * 16 + b[2] \div 16, (b[2] % 16) * 4 + b[3] \div 64,
         b[3] % 64>>
\* base64 text of a group of one to three bytes
EncodeGroup(b) ==
  IF Len(b) = 1 THEN <<b[1] \div 4, (b[1] % 4) * 16, Pad, Pad>>
  ELSE IF Len(b) = 2 THEN
    <<b[1] \div 4, (b[1] % 4) * 16 + b[2] \div 16, (b[2] % 16) * 4, Pad>>
  ELSE <<b[1] \div 4, (b[1] % 4) * 16 + b[2] \div 16, (b[2] % 16) * 4 + b[3] \div 64,
         b[3] % 64>>

\* buffer.toString('base64')
RECURSIVE Base64Encode(_)
Base64Encode(bytes) ==
  IF bytes = <<>> THEN <<>>
  ELSE IF Len(bytes) <= 3 THEN EncodeGroup(bytes)
  ELSE EncodeGroup(SubSeq(bytes, 1, 3)) \o Base64Encode(SubSeq(bytes, 4, Len(bytes)))

\* the axios call answered with the bytes; the handler builds the success
\* envelope: audioBase64 and audioSize (TTS), audioData (AI voice)
AudioReceived(ep, bytes) ==
  /\ audio = NoAudio
  /\ audio' = Audio(ep, bytes, Base64Encode(bytes),
                    IF ep = "tts" THEN Len(bytes) ELSE 0 - 1)
  /\ UNCHANGED <<mainVars, authVars, subVars, marketVars, chatVars>>

\* the envelope is sent
AudioSent ==
  /\ audio # NoAudio
  /\ audio' = NoAudio
  /\ UNCHANGED <<mainVars, authVars, subVars, marketVars, chatVars>>

InitAudio == MainIdle /\ StoresInit

NextAudio ==
  \/ \E ep \in {"tts", "aiVoice"}, bytes \in SeqsUpTo(ByteValues, MaxBytes) :
       AudioReceived(ep, bytes)
  \/ AudioSent

SpecAudio == InitAudio /\ [][NextAudio]_vars

(***************************************************************************)
(* POST /api/auth/register.  The handler awaits bcrypt.hash between its    *)
(* look-up in users and its users.push: other requests run in between.     *)
(***************************************************************************)
\* normalised emails of the request bodies
Emails == {"a@x", "b@x"}

\* users.find(user => user.email === email) finds a record
UserExists(email) == \E i \in DOMAIN users : users[i].email = email

\* the handler up to await bcrypt.hash: validation verdict and look-up
RegisterBegin(c, email, valid) ==
  /\ regs[c].pc = "idle"
  /\ Len(users) < MaxUsers
  /\ regs' = [regs EXCEPT ![c] =
                IF ~valid THEN Reg("done", email, 400)
                ELSE IF UserExists(email) THEN Reg("done", email, 409)
                ELSE Reg("hashing", email, 0)]
  /\ UNCHANGED <<mainVars, audioVars, subVars, marketVars, chatVars, users>>

\* bcrypt.hash has resolved: the record is pushed and 201 is sent
RegisterFinish(c) ==
  /\ regs[c].pc = "hashing"
  /\ users' = Append(users, User(regs[c].email))
  /\ regs' = [regs EXCEPT ![c] = Reg("done", regs[c].email, 201)]
  /\ UNCHANGED <<mainVars, audioVars, subVars, marketVars, chatVars>>

\* the request is over
RegisterOver(c) ==
  /\ regs[c].pc = "done"
  /\ regs' = [regs EXCEPT ![c] = NoReg]
  /\ UNCHANGED <<mainVars, audioVars, subVars, marketVars, chatVars, users>>

InitAuth == MainIdle /\ StoresInit

NextAuth ==
  \/ \E c \in Calls, e \in Emails, valid \in BOOLEAN : RegisterBegin(c, e, valid)
  \/ \E c \in Calls : RegisterFinish(c)
  \/ \E c \in Calls : RegisterOver(c)

SpecAuth == InitAuth /\ [][NextAuth]_vars

(***************************************************************************)
(* routes/subscription.js.  No handler awaits anything, so each request    *)
(* runs from verifyToken to its response without another one in between.   *)
(***************************************************************************)
\* req.user.userId of a verified token; "none" stands for a request whose
\* token is missing or rejected
SubUsers == {"u1", "u2"}
PlanIds == {"free", "pro", "premium"}
UsageTypes == {"aiMessages", "marketplaceListings", "storage"}
Unlimited == 0 - 1
\* plans[..].price is 0
PlanIsFree(planId) == planId = "free"
\* plans[..].limits
PlanLimits(planId) ==
  IF planId = "free" THEN [aiMessages |-> 5, marketplaceListings |-> 3, storage |-> 100]
  ELSE IF planId = "pro"
    THEN [aiMessages |-> Unlimited, marketplaceListings |-> Unlimited, storage |-> 10000]
    ELSE [aiMessages |-> Unlimited, marketplaceListings |-> Unlimited, storage |-> 50000]
\* endDate: null for the free plan, 30 days from now otherwise
PlanEndDate(planId) == IF planId = "free" THEN "null" ELSE "in30days"
NoUsage == [aiMessages |-> 0, marketplaceListings |-> 0, storage |-> 0]
\* a fresh record of the subscriptions array
NewSubscription(userId, planId) ==
  [userId |-> userId, planId |-> planId, status |-> "active", features |-> planId,
   limits |-> PlanLimits(planId), usage |-> NoUsage, endDate |-> PlanEndDate(planId)]

\* bodies of the requests
PlanValues == {"free", "pro", "gold"}
UsageTypeValues == {"aiMessages", "bandwidth"}
AmountValues == {0, 3}

\* the search that skips the first record
FindActive_afterFirst(userId) ==
  LET found == {i \in DOMAIN subs :
                  i > 1 /\ subs[i].userId = userId /\ subs[i].status = "active"}
  IN IF found = {} THEN 0 ELSE CHOOSE i \in found : \A j \in found : i <= j
\* subscriptions.find(sub => sub.userId === userId && sub.status === 'active'):
\* the index of the record found, 0 for none
FindActive(userId) ==
  LET found == {i \in DOMAIN subs : subs[i].userId = userId /\ subs[i].status = "active"}
  IN IF found = {} THEN 0 ELSE CHOOSE i \in found : \A j \in found : i <= j

SubOthersUnchanged == UNCHANGED <<mainVars, audioVars, authVars, marketVars, chatVars>>

\* GET /api/subscription/check
SubCheck(userId) ==
  /\ IF userId = "none" THEN
       /\ subReq' = SubReq("check", userId, 401)
       /\ UNCHANGED subs
     ELSE
       /\ FindActive(userId) = 0 => Len(subs) < MaxSubs
       /\ subs' = IF FindActive(userId) = 0
                    THEN Append(subs, NewSubscription(userId, "free")) ELSE subs
       /\ subReq' = SubReq("check", userId, 200)
  /\ SubOthersUnchanged

\* POST /api/subscription/upgrade; hasPayment: the body carries a paymentMethodId
SubUpgrade(userId, planId, hasPayment) ==
  /\ IF userId = "none" THEN
       /\ subReq' = SubReq("upgrade", userId, 401)
       /\ UNCHANGED subs
     ELSE IF planId \notin PlanIds THEN
       /\ subReq' = SubReq("upgrade", userId, 400)
       /\ UNCHANGED subs
     ELSE
       /\ FindActive(userId) = 0 => Len(subs) < MaxSubs
       /\ LET i == FindActive(userId) IN
            subs' = IF i # 0
                      THEN [subs EXCEPT ![i].planId = planId, ![i].status = "active",
                                        ![i].features = planId,
                                        ![i].limits = PlanLimits(planId),
                                        ![i].endDate = PlanEndDate(planId)]
                      ELSE Append(subs, NewSubscription(userId, planId))
       /\ subReq' = IF PlanIsFree(planId) \/ hasPayment
                      THEN SubReq("upgrade", userId, 200)
                      ELSE SubReq("upgradeUnpaid", userId, 400)
  /\ SubOthersUnchanged

\* POST /api/subscription/usage
SubUsage(userId, type, amount) ==
  /\ IF userId = "none" THEN
       /\ subReq' = SubReq("usage", userId, 401)
       /\ UNCHANGED subs
     ELSE IF type \notin UsageTypes \/ amount < 1 THEN
       /\ subReq' = SubReq("usage", userId, 400)
       /\ UNCHANGED subs
     ELSE IF FindActive(userId) = 0 THEN
       /\ subReq' = SubReq("usage", userId, 404)
       /\ UNCHANGED subs
     ELSE
       LET i == FindActive(userId)
           limit == subs[i].limits[type]
           currentUsage == subs[i].usage[type]
       IN IF limit # Unlimited /\ currentUsage + amount > limit THEN
            /\ subReq' = SubReq("usage", userId, 429)
            /\ UNCHANGED subs
          ELSE
            /\ currentUsage + amount <= MaxUsage
            /\ subs' = [subs EXCEPT ![i].usage[type] = currentUsage + amount]
            /\ subReq' = SubReq("usage", userId, 200)
  /\ SubOthersUnchanged

\* POST /api/subscription/cancel
SubCancel(userId) ==
  /\ IF userId = "none" THEN
       /\ subReq' = SubReq("cancel", userId, 401)
       /\ UNCHANGED subs
     ELSE IF FindActive(userId) = 0 THEN
       /\ subReq' = SubReq("cancel", userId, 404)
       /\ UNCHANGED subs
     ELSE
       /\ subs' = [subs EXCEPT ![FindActive(userId)].status = "cancelled"]
       /\ subReq' = SubReq("cancel", userId, 200)
  /\ SubOthersUnchanged

InitSub == MainIdle /\ StoresInit

NextSub ==
  \/ \E u \in SubUsers \cup {"none"} : SubCheck(u)
  \/ \E u \in SubUsers \cup {"none"}, p \in PlanValues, hasPayment \in BOOLEAN :
       SubUpgrade(u, p, hasPayment)
  \/ \E u \in SubUsers \cup {"none"}, t \in UsageTypeValues, n \in AmountValues :
       SubUsage(u, t, n)
  \/ \E u \in SubUsers \cup {"none"} : SubCancel(u)

SpecSub == InitSub /\ [][NextSub]_vars


(***************************************************************************)
(* routes/marketplace.js.  No handler awaits anything, so each request     *)
(* runs to its response without another one in between.  Both ids come     *)
(* from Date.now(), the clock in milliseconds, which may or may not have   *)
(* moved on between two requests.                                          *)
(***************************************************************************)
MarketUsers == {"u1", "u2"}
\* Date.now().toString()
NewId == now
\* the itemId of a body: the ids the clock can give, and one it cannot
ItemIdValues == 0 .. MaxClock + 1
\* a record of the items array
Item(id, sellerId, status) == [id |-> id, sellerId |-> sellerId, status |-> status]
\* a record of the orders array
Order(itemId, buyerId, sellerId) ==
  [itemId |-> itemId, buyerId |-> buyerId, sellerId |-> sellerId, status |-> "pending"]

\* items.find(i => i.id === itemId && i.status === 'active'): the index of
\* the record found, 0 for none
FindItem(itemId) ==
  LET found == {i \in DOMAIN items : items[i].id = itemId /\ items[i].status = "active"}
  IN IF found = {} THEN 0 ELSE CHOOSE i \in found : \A j \in found : i <= j

MarketOthersUnchanged == UNCHANGED <<mainVars, audioVars, authVars, subVars, chatVars>>

\* a millisecond passes
MarketTick ==
  /\ now < MaxClock
  /\ now' = now + 1
  /\ UNCHANGED <<items, orders, marketReq>>
  /\ MarketOthersUnchanged

\* POST /api/marketplace/create; valid: the body passes the validators
MarketCreate(userId, valid) ==
  /\ IF userId = "none" THEN
       /\ marketReq' = MarketReq("create", userId, 0 - 1, 401)
       /\ UNCHANGED items
     ELSE IF ~valid THEN
       /\ marketReq' = MarketReq("create", userId, 0 - 1, 400)
       /\ UNCHANGED items
     ELSE
       /\ Len(items) < MaxItems
       /\ items' = Append(items, Item(NewId, userId, "active"))
       /\ marketReq' = MarketReq("create", userId, NewId, 201)
  /\ UNCHANGED <<orders, now>>
  /\ MarketOthersUnchanged

\* POST /api/marketplace/buy; valid: the body passes the validators
MarketBuy(userId, itemId, valid) ==
  /\ IF userId = "none" THEN
       /\ marketReq' = MarketReq("buy", userId, itemId, 401)
       /\ UNCHANGED <<items, orders>>
     ELSE IF ~valid THEN
       /\ marketReq' = MarketReq("buy", userId, itemId, 400)
       /\ UNCHANGED <<items, orders>>
     ELSE IF FindItem(itemId) = 0 THEN
       /\ marketReq' = MarketReq("buy", userId, itemId, 404)
       /\ UNCHANGED <<items, orders>>
     ELSE IF items[FindItem(itemId)].sellerId = userId THEN
       /\ marketReq' = MarketReq("buy", userId, itemId, 400)
       /\ UNCHANGED <<items, orders>>
     ELSE
       /\ orders' = Append(orders, Order(itemId, userId, items[FindItem(itemId)].sellerId))
       /\ items' = [items EXCEPT ![FindItem(itemId)].status = "sold"]
       /\ marketReq' = MarketReq("buy", userId, itemId, 201)
  /\ UNCHANGED now
  /\ MarketOthersUnchanged

InitMarket == MainIdle /\ StoresInit

NextMarket ==
  \/ MarketTick
  \/ \E u \in MarketUsers \cup {"none"}, valid \in BOOLEAN : MarketCreate(u, valid)
  \/ \E u \in MarketUsers \cup {"none"}, id \in ItemIdValues, valid \in BOOLEAN :
       MarketBuy(u, id, valid)

SpecMarket == InitMarket /\ [][NextMarket]_vars


(***************************************************************************)
(* chat.js.  No handler awaits anything, so each request runs to its       *)
(* response without another one in between.  A message text is known by    *)
(* who wrote it and to whom.                                               *)
(***************************************************************************)
ChatUsers == {"u1", "u2", "u3"}
\* a chatId chosen by the client in the body or the query
ClientId(n) == [kind |-> "client", name |-> n, a |-> "none", b |-> "none"]
ClientIds == {ClientId("c1")}
\* `chat_${Date.now()}_${creatorId}_${participantId}`
GenId(creatorId, participantId) ==
  [kind |-> "gen", name |-> "chat", a |-> creatorId, b |-> participantId]
\* the chatId values of the requests: the client's own and a generated one
ChatIdValues == ClientIds \cup {GenId("u1", "u2")}
\* the recipientId and participantId values of the bodies; a request names
\* somebody else than its sender
PeerValues == {"u1", "u2"}
Text(senderId, recipientId) == [from |-> senderId, to |-> recipientId]
\* a record of the messages array
Message(chatId, senderId, recipientId) ==
  [chatId |-> chatId, senderId |-> senderId, recipientId |-> recipientId, isRead |-> FALSE]
\* a record of the chats array
Chat(id, a, b, lastMessage) == [id |-> id, participants |-> <<a, b>>, lastMessage |-> lastMessage]
\* chat.participants.includes(userId)
Includes(chat, userId) == \E k \in DOMAIN chat.participants : chat.participants[k] = userId

\* chats.find(c => c.id === chatId): the index of the record found, 0 for none
FindChat(chatId) ==
  LET found == {i \in DOMAIN chats : chats[i].id = chatId}
  IN IF found = {} THEN 0 ELSE CHOOSE i \in found : \A j \in found : i <= j
\* chats.find(chat => chat.participants.includes(creatorId) &&
\* chat.participants.includes(participantId))
ExistingChat(creatorId, participantId) ==
  \E i \in DOMAIN chats : Includes(chats[i], creatorId) /\ Includes(chats[i], participantId)

ChatOthersUnchanged == UNCHANGED <<mainVars, audioVars, authVars, subVars, marketVars>>

\* POST /api/chat/send; valid: the body passes the validators
ChatSend(userId, chatId, recipientId, valid) ==
  /\ IF userId = "none" THEN
       /\ chatView' = ChatView("send", userId, 401, NoText, {})
       /\ UNCHANGED <<chats, messages>>
     ELSE IF ~valid THEN
       /\ chatView' = ChatView("send", userId, 400, NoText, {})
       /\ UNCHANGED <<chats, messages>>
     ELSE
       /\ Len(messages) < MaxMessages
       /\ FindChat(chatId) = 0 => Len(chats) < MaxChats
       /\ messages' = Append(messages, Message(chatId, userId, recipientId))
       /\ chats' = IF FindChat(chatId) = 0
                     THEN Append(chats, Chat(chatId, userId, recipientId,
                                             Text(userId, recipientId)))
                     ELSE [chats EXCEPT ![FindChat(chatId)].lastMessage =
                                          Text(userId, recipientId)]
       /\ chatView' = ChatView("send", userId, 201, NoText, {})
  /\ ChatOthersUnchanged

\* GET /api/chat/get
ChatGet(userId, chatId) ==
  /\ IF userId = "none" THEN
       /\ chatView' = ChatView("get", userId, 401, NoText, {})
       /\ UNCHANGED messages
     ELSE
       LET mine(m) == m.chatId = chatId /\ (m.senderId = userId \/ m.recipientId = userId)
           chatMessages == {i \in DOMAIN messages : mine(messages[i])}
       IN /\ messages' = [i \in DOMAIN messages |->
                            IF i \in chatMessages /\ messages[i].recipientId = userId
                              THEN [messages[i] EXCEPT !.isRead = TRUE]
                              ELSE messages[i]]
          /\ chatView' =
               IF FindChat(chatId) = 0
                 THEN ChatView("get", userId, 404, NoText, {})
                 ELSE ChatView("get", userId, 200, chats[FindChat(chatId)].lastMessage,
                               {Text(messages[i].senderId, messages[i].recipientId) :
                                  i \in chatMessages})
  /\ UNCHANGED chats
  /\ ChatOthersUnchanged

\* POST /api/chat/create; valid: the body passes the validators
ChatCreate(userId, participantId, valid) ==
  /\ IF userId = "none" THEN
       /\ chatView' = ChatView("create", userId, 401, NoText, {})
       /\ UNCHANGED chats
     ELSE IF ~valid THEN
       /\ chatView' = ChatView("create", userId, 400, NoText, {})
       /\ UNCHANGED chats
     ELSE IF ExistingChat(userId, participantId) THEN
       /\ chatView' = ChatView("create", userId, 409, NoText, {})
       /\ UNCHANGED chats
     ELSE
       /\ Len(chats) < MaxChats
       /\ chats' = Append(chats, Chat(GenId(userId, participantId), userId, participantId,
                                      NoText))
       /\ chatView' = ChatView("create", userId, 201, NoText, {})
  /\ UNCHANGED messages
  /\ ChatOthersUnchanged

InitChat == MainIdle /\ StoresInit

NextChat ==
  \/ \E u \in ChatUsers \cup {"none"}, c \in ChatIdValues, valid \in BOOLEAN :
       \E r \in PeerValues \ {u} : ChatSend(u, c, r, valid)
  \/ \E u \in ChatUsers \cup {"none"}, c \in ChatIdValues : ChatGet(u, c)
  \/ \E u \in ChatUsers \cup {"none"}, valid \in BOOLEAN :
       \E p \in PeerValues \ {u} : ChatCreate(u, p, valid)

SpecChat == InitChat /\ [][NextChat]_vars

(***************************************************************************)
(* Specification                                                           *)
(***************************************************************************)
Next ==
  \/ \E t \in Tokens, p \in PromptValues, d \in DurationValues, r \in RatioValues :
       VideoRequest(t, p, d, r)
  \/ \E t \in Tokens, x \in TextValues, v \in VoiceValues :
       TtsRequest(t, x, v, Undef, Undef)
  \/ \E tp \in TuningPairs : TtsRequest("valid", ValidText, Undef, tp[1], tp[2])
  \/ VerifyToken
  \/ VideoHandler
  \/ \E p \in PromptValues, d \in DurationValues, r \in RatioValues :
       DirectGenerateVideo(p, d, r)
  \/ GenerateVideoEntry
  \/ \E o \in TransportOutcomes : FalAttempt(o)
  \/ FalSleep
  \/ VideoRespond
  \/ DirectReturn
  \/ TtsHandler
  \/ \E x \in TextValues, v \in VoiceValues : DirectGenerateSpeech(x, v)
  \/ GenerateSpeechEntry
  \/ \E o \in TransportOutcomes : ElTransport(o)
  \/ TtsRespond
  \/ AudioHealthRequest
  \/ \E o \in TransportOutcomes : CheckHealth(o)
  \/ \E t \in Tokens : VideoHealthRequest(t)
  \/ VideoHealthHandler
  \/ \E o \in TransportOutcomes : FalCheckHealth(o)
  \/ \E t \in Tokens, x \in TextValues, v \in VoiceValues : TestTtsRequest(t, x, v)
  \/ TestTtsHandler
  \/ TestTtsRespond
  \/ Finish

Spec == Init /\ [][Next]_vars

TypeOK ==
  /\ pc \in {"idle", "verifyToken", "handler", "generateVideo", "attempt", "sleep",
             "generateSpeech", "elRequest", "returned", "checkHealth", "videoHealth",
             "falCheckHealth", "testHandler", "done", "crashed"}
  /\ attempt \in 0..(maxRetries + 2)
  /\ Len(outcomes) <= maxRetries + 2
  /\ Len(responses) <= 2

(***************************************************************************)
(* Properties                                                              *)
(***************************************************************************)
IsFalCall == req.ep \in {"video", "genVideo"}
IsElCall == req.ep \in {"tts", "genSpeech"}
Attempts == Len(outcomes)
LastOutcome == outcomes[Len(outcomes)]
CallOver == pc \in {"returned", "done"}
RequestOver == pc \in {"done", "crashed"}

\* C1: a generateVideo call whose transport attempts all fail with HTTP 500
\* invokes the transport at most twice, and once it has returned it has made
\* exactly those two attempts and its result is classified SERVER_ERROR.
C1_RetryBound ==
  (IsFalCall /\ Attempts >= 1 /\ \A i \in 1..Attempts : outcomes[i] = Http(500))
    => /\ Attempts <= 2
       /\ CallOver => (Attempts = 2 /\ result = Resolved(FALSE, "SERVER_ERROR"))

C1_Witness ==
  /\ req.ep = "video" /\ pc = "done"
  /\ outcomes = <<Http(500), Http(500)>>
  /\ result = Resolved(FALSE, "SERVER_ERROR")

\* C2: a generateVideo call whose first transport attempt fails with HTTP 401
\* makes exactly one attempt, never sleeps, and returns the failure
\* (INVALID_API_KEY) to its caller.
C2_NoRetryOn401 ==
  (IsFalCall /\ Attempts >= 1 /\ outcomes[1] = Http(401))
    => /\ Attempts = 1
       /\ sleeps = 0
       /\ CallOver
       /\ result = Resolved(FALSE, "INVALID_API_KEY")

C2_Witness ==
  /\ req.ep = "video" /\ pc = "done"
  /\ outcomes = <<Http(401)>>
  /\ responses = <<Envelope(500, FALSE, "INVALID_API_KEY")>>

\* C3: the transport client makes a second attempt only after a network-level
\* error or a 5xx status; after any 4xx status no second attempt is made.
C3_RetryOnlyTransient ==
  (IsFalCall /\ Attempts >= 2)
    => \/ outcomes[1].kind = "net"
       \/ (outcomes[1].kind = "http" /\ outcomes[1].status >= 500)

\* C4: every finished call of POST /api/video/generate or POST /api/audio/tts
\* has produced exactly one response envelope.
C4_ExactlyOneEnvelope ==
  (req.ep \in RouteEps /\ RequestOver) => Len(responses) = 1

\* C5: on a client disabled at construction no operation issues an outbound
\* request, and every result an operation returns is classified
\* SERVICE_DISABLED.
C5_DisabledNoNetwork ==
  (elDisabled /\ req.ep \in {"tts", "genSpeech", "audioHealth"})
    => /\ outcomes = <<>>
       /\ result.state = "resolved" => result = Resolved(FALSE, "SERVICE_DISABLED")

\* the input of the call in flight fails validation, as the claim lists it:
\* text or prompt missing or empty, text over the maximum, duration outside
\* 1..20, aspect ratio outside the allowed set
C6_InvalidInput ==
  \/ req.text.t # "string"
  \/ req.text.len = 0
  \/ req.text.trimLen = 0
  \/ req.text.len > (IF IsFalCall THEN MaxPromptLen ELSE MaxTextLen)
  \/ IsFalCall /\ req.duration.t = "number"
       /\ (req.duration.n < MinDuration \/ req.duration.n > MaxDuration)
  \/ IsFalCall /\ req.aspectRatio.t = "ratio" /\ req.aspectRatio.s \notin validRatios

C7_NeverRejects ==
  (IsFalCall \/ IsElCall) => result.state # "rejected"

\* C8: when the provider's answer to a generation call of either route is
\* HTTP 429, the single envelope has success false, errorType RATE_LIMITED
\* and outward status 429.
C8_RateLimited ==
  (req.ep \in RouteEps /\ pc = "done" /\ Attempts >= 1 /\ LastOutcome = Http(429))
    => responses = <<Envelope(429, FALSE, "RATE_LIMITED")>>

C8_Witness ==
  /\ req.ep = "video" /\ pc = "done"
  /\ outcomes = <<Http(503), Http(429)>>
  /\ responses = <<Envelope(429, FALSE, "RATE_LIMITED")>>

\* C9: a provider answer of HTTP 403 is classified ACCESS_DENIED and answered
\* with outward status 403, on either route.
C9_AccessDenied ==
  (req.ep \in RouteEps /\ pc = "done" /\ Attempts >= 1 /\ LastOutcome = Http(403))
    => responses = <<Envelope(403, FALSE, "ACCESS_DENIED")>>

\* C10: a provider answer of HTTP 400 is classified BAD_REQUEST or
\* VALIDATION_ERROR and answered with outward status 400, on either route.
C10_BadRequest ==
  (req.ep \in RouteEps /\ pc = "done" /\ Attempts >= 1 /\ LastOutcome = Http(400))
    => /\ Len(responses) = 1
       /\ responses[1].status = 400
       /\ ~responses[1].success
       /\ responses[1].errorType \in {"BAD_REQUEST", "VALIDATION_ERROR"}

\* C11: a provider answer with any status in 500..599 is classified
\* SERVER_ERROR and answered with outward status 503, on either route.
C11_ServerError5xx ==
  (req.ep \in RouteEps /\ pc = "done" /\ Attempts >= 1
     /\ LastOutcome.kind = "http" /\ LastOutcome.status \in 500..599)
    => responses = <<Envelope(503, FALSE, "SERVER_ERROR")>>

\* the provider credential of the route in flight
C12_KeyOfRoute == IF req.ep = "video" THEN falKey ELSE elKey

\* C12: an authenticated, valid generation request that arrives when the
\* provider credential was rejected at construction is answered 500, with
\* MISSING_API_KEY when the credential is absent and INVALID_API_KEY when it
\* is present but shorter than the minimum length.
C12_RejectedCredential ==
  (req.ep \in RouteEps /\ pc = "done" /\ req.token = "valid" /\ req.valOk
     /\ ~FalValidateApiKey(C12_KeyOfRoute))
    => responses =
         <<Envelope(500, FALSE,
                    IF Truthy(C12_KeyOfRoute) THEN "INVALID_API_KEY" ELSE "MISSING_API_KEY")>>

C13_Taxonomy ==
  {"MISSING_API_KEY", "INVALID_API_KEY", "ACCESS_DENIED", "NO_CREDITS",
   "PAYMENT_REQUIRED", "RATE_LIMITED", "TIMEOUT", "NETWORK_ERROR", "SERVER_ERROR",
   "BAD_REQUEST", "VALIDATION_ERROR", "SERVICE_DISABLED", "UNKNOWN_ERROR", "API_ERROR"}

\* C13: every errorType returned by generateVideo or generateSpeech belongs
\* to the closed taxonomy.
C13_ClosedTaxonomy ==
  ((IsFalCall \/ IsElCall) /\ result.state = "resolved" /\ ~result.success)
    => result.errorType \in C13_Taxonomy

\* a failure the transport client is meant to retry: network-level or 5xx
C16_Retryable(o) == o.kind = "net" \/ (o.kind = "http" /\ o.status >= 500)

\* C16: a generateVideo call makes at most two transport attempts, pauses
\* for a retry at most once and only after a retryable first failure, and has
\* a result (DONE or FAILED) whenever it is over.
C16_StateMachine ==
  IsFalCall
    => /\ Attempts <= 2
       /\ sleeps <= 1
       /\ (pc = "sleep" \/ sleeps = 1) => (Attempts >= 1 /\ C16_Retryable(outcomes[1]))
       /\ CallOver => (result.state = "resolved" \/ Attempts = 0)

\* the value the claim prescribes for the input h/100, in units of 1/10000:
\* above 1 the input divided by 100 and clamped to [0,1], within [0,1] the
\* input itself
C15_Prescribed(h) == IF h > 100 THEN (IF h > Unit THEN Unit ELSE h) ELSE h * 100

\* the normalised value of one tuning parameter is as the claim prescribes
C15_Normalised(input, output) ==
  /\ 0 <= output /\ output <= Unit
  /\ (TypeOf(input) = "number" /\ input.h >= 0) => output = C15_Prescribed(input.h)

\* C15: whenever the handler of POST /api/audio/tts has handed stability and
\* similarity to generateSpeech, each lies in [0,1], equals input/100 clamped
\* to [0,1] for an input above 1, and equals the input for an input in [0,1].
C15_TuningNormalised ==
  (req.ep = "tts" /\ voiceSettings # NoSettings)
    => /\ C15_Normalised(req.stability, voiceSettings.stability)
       /\ C15_Normalised(req.similarity, voiceSettings.similarity_boost)

C15_Witness ==
  /\ req.ep = "tts" /\ pc = "done"
  /\ req.stability = Hundredths(Unit + 1) /\ req.similarity = Undef
  /\ voiceSettings.stability = Unit
  /\ voiceSettings.similarity_boost = DefaultSimilarity
  /\ outcomes = <<Ok>>

\* the provider the route depends on had no usable credential at start-up
C14_CredentialUnusable ==
  \/ req.ep = "video" /\ falClient = "null"
  \/ req.ep = "tts" /\ elDisabled

\* C14: with the credential of its provider absent or malformed at start-up,
\* a request to POST /api/video/generate or POST /api/audio/tts never crashes
\* its handler, and once over it has been answered with exactly one error
\* envelope and no outbound call was made.
C14_DegradedNotCrashed ==
  C14_CredentialUnusable
    => /\ pc # "crashed"
       /\ pc = "done" => /\ Len(responses) = 1
                         /\ ~responses[1].success
                         /\ outcomes = <<>>

\* the endpoints under /api/video and the text-to-speech endpoints
C18_ProtectedEps == {"video", "videoHealth", "tts", "testTts"}

\* C18: a request to an endpoint under /api/video or to a text-to-speech
\* endpoint that carries no valid bearer token never causes an outbound call
\* to the provider, and once over it has been answered 401.
C18_JwtRequired ==
  (req.ep \in C18_ProtectedEps /\ req.token # "valid")
    => /\ outcomes = <<>>
       /\ pc = "done" => responses = <<Envelope(401, FALSE, "AUTHENTICATION_ERROR")>>

\* C20: a request to POST /api/ai/chat, /api/ai/voice or /api/ai/image whose
\* outbound OpenAI call was made and failed (any HTTP status, a timeout, a
\* network error, an unusable body) is answered exactly once, with HTTP 200,
\* success: true and isFallback: true.
C20_FallbackOnFailure ==
  (req.ep \in AiEps /\ pc = "done" /\ outcomes # <<>> /\ outcomes[1] # Ok)
    => /\ Truthy(openaiKey) /\ req.valOk /\ req.token = "valid"
       /\ responses = <<AiEnvelope(200, TRUE, TRUE)>>

C20_Witness ==
  /\ req.ep = "aiChat" /\ pc = "done"
  /\ outcomes = <<Http(401)>>
  /\ responses = <<AiEnvelope(200, TRUE, TRUE)>>

\* C19: a request to /health is never rejected by the rate limiter and
\* leaves the sender's count in the limiter's store as it was.
C19_HealthExempt ==
  arrival.path = "/health"
    => /\ arrival.verdict = "passed"
       /\ hits[arrival.ip] = arrival.before

\* what the retry loop returns when run alone on the outcomes outs, from
\* attempt number n on; NoResult when outs is not the log of a whole run
RECURSIVE C17_LoopAlone(_, _)
C17_LoopAlone(outs, n) ==
  IF outs = <<>> THEN NoResult
  ELSE IF Head(outs) = Ok THEN
    IF Len(outs) = 1 THEN Resolved(TRUE, "none") ELSE NoResult
  ELSE IF FalNoRetry(Head(outs)) \/ n > maxRetries THEN
    IF Len(outs) = 1 THEN Resolved(FALSE, FalHandleError(Head(outs))) ELSE NoResult
  ELSE C17_LoopAlone(Tail(outs), n + 1)

\* what an invocation returns when it is the only one in flight, as a
\* function of its own argument and its own transport outcomes
C17_Alone(kind, text, outs) ==
  IF ~HasStringMethods(text) THEN (IF outs = <<>> THEN Rejected ELSE NoResult)
  ELSE IF kind = "fal" THEN
    IF ~FalValidateInput(text, DurationOrDefault(Undef), RatioOrDefault(Undef))
      THEN (IF outs = <<>> THEN Resolved(FALSE, FalHandleError(PlainError)) ELSE NoResult)
      ELSE C17_LoopAlone(outs, 1)
  ELSE
    IF ~ElValidateInput(text, DefaultVoiceId)
      THEN (IF outs = <<>> THEN Resolved(FALSE, ElClassify(PlainError)) ELSE NoResult)
    ELSE IF Len(outs) # 1 THEN NoResult
    ELSE IF outs[1] = Ok THEN Resolved(TRUE, "none")
    ELSE Resolved(FALSE, ElClassify(outs[1]))

C17_OwnInputDecides ==
  \A c \in Calls :
    calls[c].pc = "returned"
      => /\ calls[c].result # NoResult
         /\ calls[c].result = C17_Alone(calls[c].kind, calls[c].text, calls[c].outcomes)

\* C17: under every interleaving of the invocations in flight on the same
\* client instances, what an invocation returns is what it returns when run
\* alone on its own argument and its own transport outcomes, and no step
\* writes a field of a client.
C17_NoInterference == [](C17_OwnInputDecides) /\ [][UNCHANGED config]_vars

\* both invocations are past their first failed attempt, interleaved, and one
\* has returned after its retry
C17_Witness ==
  /\ calls[1].kind = "fal" /\ calls[1].pc = "returned"
  /\ calls[1].outcomes = <<Http(500), Http(500)>>
  /\ calls[1].result = Resolved(FALSE, "SERVER_ERROR")
  /\ calls[2].kind = "fal" /\ calls[2].pc = "sleep"
  /\ calls[2].outcomes = <<Net("ECONNRESET")>>

\* the bytes a client gets from one group of four base64 characters
C21_DecodeGroup(g) ==
  IF g[3] = Pad THEN <<g[1] * 4 + g[2] \div 16>>
  ELSE IF g[4] = Pad THEN <<g[1] * 4 + g[2] \div 16, (g[2] % 16) * 16 + g[3] \div 4>>
  ELSE <<g[1] * 4 + g[2] \div 16, (g[2] % 16) * 16 + g[3] \div 4, (g[3] % 4) * 64 + g[4]>>

\* a standard base64 decoder; text that is not whole groups decodes to nothing usable
RECURSIVE C21_Decode(_)
C21_Decode(text) ==
  IF text = <<>> THEN <<>>
  ELSE IF Len(text) < 4 THEN <<0 - 1>>
  ELSE C21_DecodeGroup(SubSeq(text, 1, 4)) \o C21_Decode(SubSeq(text, 5, Len(text)))

\* C21: decoding the base64 field of a success envelope (audioBase64 of TTS,
\* audioData of /api/ai/voice) gives back exactly the bytes the provider
\* sent, and the audioSize the TTS envelope reports is their number.
C21_Base64RoundTrip ==
  audio # NoAudio
    => /\ C21_Decode(audio.base64) = audio.bytes
       /\ audio.ep = "tts" => audio.size = Len(audio.bytes)

C21_Witness ==
  /\ audio.ep = "tts"
  /\ audio.bytes = <<255, 0, 128, 77>>
  /\ audio.base64 = <<63, 48, 2, 0, 19, 16, Pad, Pad>>
  /\ audio.size = 4

\* C22: in the payload a request to POST /api/audio/tts has sent to the
\* provider, an omitted voiceId has become the default voice id, and a
\* stability or similarity that was omitted or is not a number has become
\* the default 0.5 or 0.8.
C22_Defaults ==
  (req.ep = "tts" /\ outcomes # <<>>)
    => /\ req.voiceId = Undef => voiceSettings.voice_id = DefaultVoiceId
       /\ TypeOf(req.stability) # "number" => voiceSettings.stability = DefaultStability
       /\ TypeOf(req.similarity) # "number"
            => voiceSettings.similarity_boost = DefaultSimilarity

C22_Witness ==
  /\ req.ep = "tts" /\ pc = "done" /\ outcomes = <<Ok>>
  /\ req.voiceId = Undef /\ req.stability = Str(3, 3) /\ req.similarity = Undef
  /\ voiceSettings = [stability |-> DefaultStability,
                      similarity_boost |-> DefaultSimilarity,
                      voice_id |-> DefaultVoiceId]

\* a failure that is to be returned to the caller at once: a 4xx status
C23_NonRetryable(o) == o.kind = "http" /\ o.status >= 400 /\ o.status < 500

\* C23: within one generateVideo call the 2-second pause is taken at most
\* once, only while exactly one attempt has been made and that attempt
\* failed, never after a non-retryable failure, and the second attempt is
\* made only after the pause is over.
C23_PauseOrdering ==
  IsFalCall
    => /\ sleeps <= 1
       /\ pc = "sleep" => (Attempts = 1 /\ sleeps = 0 /\ outcomes[1] # Ok)
       /\ (pc = "sleep" \/ sleeps = 1) => ~C23_NonRetryable(outcomes[1])
       /\ Attempts = 2 => sleeps = 1

\* C24: no two records of the users array have the same email.
C24_UniqueEmails ==
  \A i, j \in DOMAIN users : i # j => users[i].email # users[j].email

\* C25: a step that handles an upgrade request and answers it 400 'Payment
\* processing failed' leaves the subscriptions array as it was.
C25_FailedUpgradeChangesNothing ==
  [][(subReq'.route = "upgradeUnpaid" /\ subReq'.status = 400) => subs' = subs]_vars

\* C26: for every active subscription and every usage type whose limit is
\* not -1, the usage counted is at most the limit.
C26_UsageWithinLimits ==
  \A i \in DOMAIN subs :
    subs[i].status = "active"
      => \A t \in UsageTypes :
           subs[i].limits[t] # Unlimited => subs[i].usage[t] <= subs[i].limits[t]

\* C27: no user has two subscriptions with status 'active'.
C27_OneActivePerUser ==
  \A i, j \in DOMAIN subs :
    (i # j /\ subs[i].userId = subs[j].userId)
      => ~(subs[i].status = "active" /\ subs[j].status = "active")

\* a user cancelled, came back with an upgrade that created a new
\* subscription, and then asked for the status
C27_Witness ==
  /\ Len(subs) = 2
  /\ subs[1].userId = "u1" /\ subs[1].status = "cancelled"
  /\ subs[2].userId = "u1" /\ subs[2].status = "active" /\ subs[2].planId = "pro"
  /\ subReq = SubReq("check", "u1", 200)

\* C28: a marketplace item is sold at most once: no item record has more
\* than one order under its id, and a buy that is answered 201 is the only
\* order of that id (a later buy of it is answered 404)
C28_SoldAtMostOnce ==
  /\ \A i \in DOMAIN items :
       Cardinality({k \in DOMAIN orders : orders[k].itemId = items[i].id}) <= 1
  /\ (marketReq.route = "buy" /\ marketReq.status = 201)
       => Cardinality({k \in DOMAIN orders : orders[k].itemId = marketReq.itemId}) = 1

\* C29: GET /api/chat/get answered 200 discloses to the user only texts of
\* which the user is the sender or the recipient, in the messages list and
\* in the lastMessage of the chat object
C29_Confidential ==
  (chatView.route = "get" /\ chatView.status = 200) =>
    /\ chatView.lastMessage # NoText =>
         chatView.userId \in {chatView.lastMessage.from, chatView.lastMessage.to}
    /\ \A t \in chatView.texts : chatView.userId \in {t.from, t.to}

\* C30: no two chat records have the same two participants
C30_OneChatPerPair ==
  \A i, j \in DOMAIN chats :
    i # j => {chats[i].participants[1], chats[i].participants[2]}
               # {chats[j].participants[1], chats[j].participants[2]}

====
